---- MODULE Spec2Model ----
(***************************************************************************)
(* witr: "why is this process running?"                                    *)
(*                                                                         *)
(* A model of the ancestry builder (process/process.go), the source        *)
(* detector and the warning engine (detect/detect.go and its per-platform  *)
(* detectInit), and the part of main that chains them.                     *)
(*                                                                         *)
(* Strings that the code searches or lower-cases (commands, command lines, *)
(* cgroup files, launchctl output, source names) are sequences of          *)
(* one-character strings, so that strings.Contains, strings.ToLower and    *)
(* strings.SplitN are computed and not assumed.  Strings that the code     *)
(* only compares or concatenates (user, working directory, bind address,   *)
(* health label, warning texts) are TLA+ strings.                          *)
(*                                                                         *)
(* Confidence is a float64 with one decimal in the code; the model keeps   *)
(* it in tenths: 9 stands for 0.9, 10 for 1.0.                             *)
(***************************************************************************)
EXTENDS Integers, Sequences, FiniteSets, TLC

(***************************************************************************)
(* Bounds of the model.                                                    *)
(***************************************************************************)
\* process identifiers of the host of the ancestry-builder runs: 1..MaxPid
MaxPid == 3
\* longest ancestry handed directly to Detect and Warnings
MaxChain == 3

(***************************************************************************)
(* String literals of the source.                                          *)
(***************************************************************************)
s_docker == <<"d", "o", "c", "k", "e", "r">>
s_containerd == <<"c", "o", "n", "t", "a", "i", "n", "e", "r", "d">>
s_kubepods == <<"k", "u", "b", "e", "p", "o", "d", "s">>
s_container == <<"c", "o", "n", "t", "a", "i", "n", "e", "r">>
s_pm2 == <<"p", "m", "2">>
s_cron == <<"c", "r", "o", "n">>
s_crond == <<"c", "r", "o", "n", "d">>
s_systemd == <<"s", "y", "s", "t", "e", "m", "d">>
s_launchd == <<"l", "a", "u", "n", "c", "h", "d">>
s_bash == <<"b", "a", "s", "h">>
s_zsh == <<"z", "s", "h">>
s_sh == <<"s", "h">>
s_fish == <<"f", "i", "s", "h">>
s_gui == <<"g", "u", "i">>
s_slash == <<"/">>
s_empty == <<>>

(***************************************************************************)
(* strings.ToLower, strings.Contains, strings.Index, strings.TrimSpace on  *)
(* character sequences.                                                    *)
(***************************************************************************)
UpperToLower ==
    [c \in {"A", "B", "C", "D", "E", "F", "G", "H", "I", "J", "K", "L", "M",
            "N", "O", "P", "Q", "R", "S", "T", "U", "V", "W", "X", "Y", "Z"} |->
       CASE c = "A" -> "a" [] c = "B" -> "b" [] c = "C" -> "c" [] c = "D" -> "d"
         [] c = "E" -> "e" [] c = "F" -> "f" [] c = "G" -> "g" [] c = "H" -> "h"
         [] c = "I" -> "i" [] c = "J" -> "j" [] c = "K" -> "k" [] c = "L" -> "l"
         [] c = "M" -> "m" [] c = "N" -> "n" [] c = "O" -> "o" [] c = "P" -> "p"
         [] c = "Q" -> "q" [] c = "R" -> "r" [] c = "S" -> "s" [] c = "T" -> "t"
         [] c = "U" -> "u" [] c = "V" -> "v" [] c = "W" -> "w" [] c = "X" -> "x"
         [] c = "Y" -> "y" [] c = "Z" -> "z"]

ToLower(s) ==
    [i \in 1..Len(s) |-> IF s[i] \in DOMAIN UpperToLower THEN UpperToLower[s[i]] ELSE s[i]]

\* strings.Contains(s, sub)
Contains(s, sub) ==
    \E i \in 0..(Len(s) - Len(sub)) : \A j \in 1..Len(sub) : s[i + j] = sub[j]

\* strings.Index(s, sub), 0-based, -1 when absent
Index(s, sub) ==
    IF Contains(s, sub)
    THEN CHOOSE i \in 0..(Len(s) - Len(sub)) :
            /\ SubSeq(s, i + 1, i + Len(sub)) = sub
            /\ \A j \in 0..(i - 1) : SubSeq(s, j + 1, j + Len(sub)) # sub
    ELSE -1

IsSpace(c) == c \in {" ", "\n", "\t", "\r"}

\* strings.TrimSpace(s)
TrimSpace(s) ==
    LET keep == {i \in 1..Len(s) : ~IsSpace(s[i])}
    IN  IF keep = {} THEN <<>>
        ELSE LET lo == CHOOSE i \in keep : \A j \in keep : i <= j
                 hi == CHOOSE i \in keep : \A j \in keep : j <= i
             IN  SubSeq(s, lo, hi)

\* strings.SplitN(s, sep, 2): one part when sep is absent, else the text
\* before the first sep and everything after it
SplitN2(s, sep) ==
    LET at == Index(s, sep)
    IN  IF at = -1 THEN <<s>>
        ELSE <<SubSeq(s, 1, at), SubSeq(s, at + Len(sep) + 1, Len(s))>>

(***************************************************************************)
(* Data model.                                                             *)
(***************************************************************************)
\* the error result of a failed Read: (Process{}, err)
NotFound == [err |-> "not found"]

\* the error result of os.ReadFile and of exec.Command(...).Output()
FileErr == [err |-> "no such file"]

\* a nil *Source
Nil == [nil |-> TRUE]

\* a run-time panic (index out of range)
Panic == [panic |-> "index out of range"]

\* a value returned by a function that can also panic
Returned(v) == [value |-> v]

\* the result of exec.Command(...).Output(): the output and whether it failed
ExecResult(out, failed) == [out |-> out, err |-> failed]

\* a value main has not computed
NotComputed == [computed |-> FALSE]

\* a nil map[string]string
NoDetails == {}

Source(type, name, confidence, details) ==
    [Type |-> type, Name |-> name, Confidence |-> confidence, Details |-> details]

\* time.Now(), in hours
NowHours == 400 * 24

Process(id, ppid, command, cmdline, user, startedAt, workingDir, bindAddresses, health) ==
    [PID |-> id, PPID |-> ppid, Command |-> command, Cmdline |-> cmdline,
     User |-> user, StartedAt |-> startedAt, WorkingDir |-> workingDir,
     BindAddresses |-> bindAddresses, Health |-> health]

VARIABLES
    platform,      \* the build: "linux" or "darwin"
    procTable,     \* the host's processes, as the Process Reader sees them
    cgroupFiles,   \* /proc/<pid>/cgroup: decimal pid -> content, for the files that exist
    launchctlOut,  \* `launchctl blame <pid>`: pid -> output, for the pids it knows
    target,        \* the identifier BuildAncestry is called with
    pid,           \* BuildAncestry: the loop variable
    seen,          \* BuildAncestry: the visited set
    chain,         \* BuildAncestry: the accumulating chain
    reads,         \* the identifiers handed to Read, in order
    pc,            \* position of main
    ancestry,      \* main: the ancestry handed to Detect and Warnings
    src,           \* main: the Source, or NotComputed
    src2,          \* the Source of a second Detect call on the same ancestry
    warnings,      \* main: Returned(the warning list), or NotComputed
    exitCode       \* main: the exit status, -1 while running

vars == <<platform, procTable, cgroupFiles, launchctlOut, target, pid, seen,
          chain, reads, pc, ancestry, src, src2, warnings, exitCode>>

env == <<platform, procTable, cgroupFiles, launchctlOut, target>>

(***************************************************************************)
(* process.BuildAncestry                                                   *)
(***************************************************************************)
\* mutant: a process that cannot be read comes back as the zero Process
\* without an error
ReadZeroProcess(p) ==
    IF p \in DOMAIN procTable THEN procTable[p]
    ELSE [PID |-> 0, PPID |-> 0, Command |-> <<>>, Cmdline |-> <<>>, User |-> "",
          StartedAt |-> 0, WorkingDir |-> "", BindAddresses |-> <<>>, Health |-> ""]

\* process.Read(pid): the snapshot of the process, or an error
Read(p) == IF p \in DOMAIN procTable THEN procTable[p] ELSE NotFound

\* mutant: the visited set is not consulted
LoopCondNoSeen(p, s) == p > 0

\* the loop condition: pid > 0 && !seen[pid]
LoopCond(p, s) == p > 0 /\ p \notin s

\* mutant: the process is appended instead of prepended
PrependAtEnd(p, c) == c \o <<p>>

\* chain = append([]Process{p}, chain...)
Prepend(p, c) == <<p>> \o c

\* mutant: a failed read of an ancestor discards the chain
OnReadErrorFatal(c) == <<>>

\* the chain kept when Read fails: break leaves it as it is
OnReadError(c) == c

\* mutant: both conditions are required
InitReachedBoth(p) == p.PID = 1 /\ p.PPID = 0

\* if p.PID == 1 || p.PPID == 0 { break }
InitReached(p) == p.PID = 1 \/ p.PPID = 0

\* one iteration of the loop, with its blocking Read
BuildStep ==
    /\ pc = "loop"
    /\ LoopCond(pid, seen)
    /\ seen' = seen \cup {pid}
    /\ reads' = Append(reads, pid)
    /\ LET p == Read(pid)
       IN  IF p = NotFound
           THEN /\ chain' = OnReadError(chain)
                /\ pid' = pid
                /\ pc' = "return"
           ELSE /\ chain' = Prepend(p, chain)
                /\ IF InitReached(p)
                   THEN pid' = pid /\ pc' = "return"
                   ELSE pid' = p.PPID /\ pc' = "loop"
    /\ UNCHANGED <<env, ancestry, src, src2, warnings, exitCode>>

\* the loop condition fails
BuildExit ==
    /\ pc = "loop"
    /\ ~LoopCond(pid, seen)
    /\ pc' = "return"
    /\ UNCHANGED <<env, pid, seen, chain, reads, ancestry, src, src2, warnings, exitCode>>

\* return chain, nil
BuildReturn ==
    /\ pc = "return"
    /\ ancestry' = chain
    /\ pc' = "built"
    /\ UNCHANGED <<env, pid, seen, chain, reads, src, src2, warnings, exitCode>>

(***************************************************************************)
(* detect.Detect and its classifiers                                       *)
(***************************************************************************)
\* seq[i] of Go (1-based here), with the index-out-of-range panic
At(seq, i) == IF i \in 1..Len(seq) THEN seq[i] ELSE Panic

Digit(d) ==
    CASE d = 0 -> "0" [] d = 1 -> "1" [] d = 2 -> "2" [] d = 3 -> "3" [] d = 4 -> "4"
      [] d = 5 -> "5" [] d = 6 -> "6" [] d = 7 -> "7" [] d = 8 -> "8" [] d = 9 -> "9"

RECURSIVE itoaDigits(_)
itoaDigits(n) == IF n > 0 THEN Append(itoaDigits(n \div 10), Digit(n % 10)) ELSE <<>>

\* itoa: "0" for 0, the decimal digits for n > 0, "" for n < 0
itoa(n) == IF n = 0 THEN <<"0">> ELSE itoaDigits(n)

\* os.ReadFile("/proc/" + itoa(pid) + "/cgroup")
ReadCgroup(id) ==
    IF itoa(id) \in DOMAIN cgroupFiles
    THEN ExecResult(cgroupFiles[itoa(id)], FALSE)
    ELSE ExecResult(<<>>, TRUE)

\* the marker test of detectContainer
HasContainerMarker(s) ==
    Contains(s, s_docker) \/ Contains(s, s_containerd) \/ Contains(s, s_kubepods)

ContainerSource == Source("container", s_container, 9, NoDetails)

RECURSIVE containerScan(_, _)
containerScan(anc, i) ==
    IF i > Len(anc) THEN Nil
    ELSE LET data == ReadCgroup(anc[i].PID)
         IN  IF data.err THEN containerScan(anc, i + 1)
             ELSE IF HasContainerMarker(data.out) THEN ContainerSource
             ELSE containerScan(anc, i + 1)

\* mutant: only the target's cgroup file is looked at
detectContainerTargetOnly(anc) ==
    IF Len(anc) = 0 THEN Nil ELSE containerScan(anc, Len(anc))

\* detectContainer: for _, p := range ancestry
detectContainer(anc) == containerScan(anc, 1)

supervisors ==
       <<"p", "m", "2">> :> <<"p", "m", "2">>
    @@ <<"p", "m", "2", " ", "g", "o", "d">> :> <<"p", "m", "2">>
    @@ <<"s", "u", "p", "e", "r", "v", "i", "s", "o", "r", "d">> :> <<"s", "u", "p", "e", "r", "v", "i", "s", "o", "r", "d">>
    @@ <<"g", "u", "n", "i", "c", "o", "r", "n">> :> <<"g", "u", "n", "i", "c", "o", "r", "n">>
    @@ <<"u", "w", "s", "g", "i">> :> <<"u", "w", "s", "g", "i">>
    @@ <<"s", "6", "-", "s", "u", "p", "e", "r", "v", "i", "s", "e">> :> <<"s", "6">>
    @@ <<"s", "6">> :> <<"s", "6">>
    @@ <<"r", "u", "n", "s", "v">> :> <<"r", "u", "n", "i", "t">>
    @@ <<"r", "u", "n", "i", "t">> :> <<"r", "u", "n", "i", "t">>
    @@ <<"o", "p", "e", "n", "r", "c">> :> <<"o", "p", "e", "n", "r", "c">>
    @@ <<"m", "o", "n", "i", "t">> :> <<"m", "o", "n", "i", "t">>
    @@ <<"c", "i", "r", "c", "u", "s", "d">> :> <<"c", "i", "r", "c", "u", "s">>
    @@ <<"c", "i", "r", "c", "u", "s">> :> <<"c", "i", "r", "c", "u", "s">>
    @@ <<"d", "a", "e", "m", "o", "n", "t", "o", "o", "l", "s">> :> <<"d", "a", "e", "m", "o", "n", "t", "o", "o", "l", "s">>
    @@ <<"t", "i", "n", "i">> :> <<"t", "i", "n", "i">>
    @@ <<"d", "o", "c", "k", "e", "r", "-", "i", "n", "i", "t">> :> <<"d", "o", "c", "k", "e", "r", "-", "i", "n", "i", "t">>

SupervisorSource(name, confidence) == Source("supervisor", name, confidence, NoDetails)

\* for sup, name := range supervisors { if strings.Contains(cmdline, sup) { return ... } }
\* Go leaves the iteration order of a map unspecified and randomises it, so
\* the first key the loop finds in cmdline is any of the keys cmdline contains:
\* the set of names the loop can return (empty when it falls through).
rangeSupervisors(cmdline) ==
    {supervisors[sup] : sup \in {k \in DOMAIN supervisors : Contains(cmdline, k)}}

\* mutant: the registry is consulted before the pm2 test
supervisorOfRegistryFirst(p) ==
    LET cmd == ToLower(p.Command)
        cmdline == ToLower(p.Cmdline)
    IN  IF cmd \in DOMAIN supervisors
        THEN {SupervisorSource(supervisors[cmd], 7)}
        ELSE IF Contains(cmd, s_pm2) \/ Contains(cmdline, s_pm2)
        THEN {SupervisorSource(s_pm2, 9)}
        ELSE LET names == rangeSupervisors(cmdline)
             IN  IF names # {}
                 THEN {SupervisorSource(name, 7) : name \in names}
                 ELSE {Nil}

\* the body of detectSupervisor's loop for one process: the set of Sources it
\* can return, or {Nil} when it goes on to the next process
supervisorOf(p) ==
    LET cmd == ToLower(p.Command)
        cmdline == ToLower(p.Cmdline)
    IN  IF Contains(cmd, s_pm2) \/ Contains(cmdline, s_pm2)
        THEN {SupervisorSource(s_pm2, 9)}
        ELSE IF cmd \in DOMAIN supervisors
        THEN {SupervisorSource(supervisors[cmd], 7)}
        ELSE LET names == rangeSupervisors(cmdline)
             IN  IF names # {}
                 THEN {SupervisorSource(name, 7) : name \in names}
                 ELSE {Nil}

RECURSIVE supervisorScan(_, _)
supervisorScan(anc, i) ==
    IF i < 1 THEN {Nil}
    ELSE LET found == supervisorOf(anc[i])
         IN  IF found # {Nil} THEN found ELSE supervisorScan(anc, i - 1)

\* detectSupervisor: for i := len(ancestry) - 1; i >= 0; i--
\* the set of results the call can return: {Nil}, or one or more Sources
detectSupervisor(anc) == supervisorScan(anc, Len(anc))

\* mutant: a substring test instead of the exact comparison
IsCronSubstring(cmd) == Contains(cmd, s_cron)

\* cmd == "cron" || cmd == "crond"
IsCron(cmd) == cmd = s_cron \/ cmd = s_crond

RECURSIVE cronScan(_, _)
cronScan(anc, i) ==
    IF i < 1 THEN Nil
    ELSE IF IsCron(anc[i].Command) THEN Source("cron", s_cron, 6, NoDetails)
    ELSE cronScan(anc, i - 1)

detectCron(anc) == cronScan(anc, Len(anc))

shells == {s_bash, s_zsh, s_sh, s_fish}

RECURSIVE shellScan(_, _)
shellScan(anc, i) ==
    IF i < 1 THEN Nil
    ELSE IF anc[i].Command \in shells THEN Source("shell", anc[i].Command, 5, NoDetails)
    ELSE shellScan(anc, i - 1)

\* mutant: the scan starts at the root
detectShellFromRoot(anc) ==
    LET hits == {i \in 1..Len(anc) : anc[i].Command \in shells}
    IN  IF hits = {} THEN Nil
        ELSE Source("shell", anc[CHOOSE i \in hits : \A j \in hits : i <= j].Command, 5,
                    NoDetails)

\* detectShell: for i := len(ancestry) - 1; i >= 0; i--
detectShell(anc) == shellScan(anc, Len(anc))

\* detectInit of the linux build: systemd as PID 1
RECURSIVE initScanLinux(_, _)
initScanLinux(anc, i) ==
    IF i > Len(anc) THEN Nil
    ELSE IF anc[i].PID = 1 /\ anc[i].Command = s_systemd
    THEN Source("systemd", s_systemd, 8, NoDetails)
    ELSE initScanLinux(anc, i + 1)

detectInitLinux(anc) == initScanLinux(anc, 1)

\* exec.Command("launchctl", "blame", strconv.Itoa(pid)).Output()
LaunchctlBlame(id) ==
    IF id \in DOMAIN launchctlOut
    THEN ExecResult(launchctlOut[id], FALSE)
    ELSE ExecResult(<<>>, TRUE)

\* getLaunchdLabel: <<label, domain>>
getLaunchdLabel(id) ==
    LET res == LaunchctlBlame(id)
        line == TrimSpace(res.out)
        parts == SplitN2(line, s_slash)
    IN  IF res.err THEN <<s_empty, s_empty>>
        ELSE IF ~Contains(line, s_slash) THEN <<s_empty, s_empty>>
        ELSE IF Len(parts) < 2 THEN <<line, s_empty>>
        ELSE LET domain == parts[1]
                 label == parts[2]
                 sub == SplitN2(label, s_slash)
             IN  IF domain = s_gui /\ Len(sub) = 2
                 THEN <<sub[2], s_gui \o s_slash \o sub[1]>>
                 ELSE <<label, domain>>

\* mutant: the label raises the generic confidence by 0.9 instead of replacing it
launchdSourceSummed(anc) ==
    IF Len(anc) > 0
    THEN LET tgt == At(anc, Len(anc))
             found == getLaunchdLabel(tgt.PID)
         IN  IF found[1] # s_empty
             THEN Source("launchd", found[1], 8 + 9, {<<"domain", found[2]>>})
             ELSE Source("launchd", s_launchd, 8, NoDetails)
    ELSE Source("launchd", s_launchd, 8, NoDetails)

\* mutant: the label is looked up for the first element instead of the target
launchdSourceOfRoot(anc) ==
    IF Len(anc) > 0
    THEN LET tgt == At(anc, 1)
             found == getLaunchdLabel(tgt.PID)
         IN  IF found[1] # s_empty
             THEN Source("launchd", found[1], 9, {<<"domain", found[2]>>})
             ELSE Source("launchd", s_launchd, 8, NoDetails)
    ELSE Source("launchd", s_launchd, 8, NoDetails)

\* the body of the darwin detectInit once launchd is found as PID 1
launchdSource(anc) ==
    IF Len(anc) > 0
    THEN LET tgt == At(anc, Len(anc))
             found == getLaunchdLabel(tgt.PID)
         IN  IF found[1] # s_empty
             THEN Source("launchd", found[1], 9, {<<"domain", found[2]>>})
             ELSE Source("launchd", s_launchd, 8, NoDetails)
    ELSE Source("launchd", s_launchd, 8, NoDetails)

\* detectInit of the darwin build: launchd as PID 1, with the service label
RECURSIVE initScanDarwin(_, _)
initScanDarwin(anc, i) ==
    IF i > Len(anc) THEN Nil
    ELSE IF anc[i].PID = 1 /\ anc[i].Command = s_launchd THEN launchdSource(anc)
    ELSE initScanDarwin(anc, i + 1)

detectInitDarwin(anc) == initScanDarwin(anc, 1)

\* the detectInit the build tag selects
detectInit(anc) == IF platform = "linux" THEN detectInitLinux(anc) ELSE detectInitDarwin(anc)

UnknownSource == Source("unknown", s_empty, 2, NoDetails)

\* mutant: the supervisor classifier is tried before the container classifier
DetectSupervisorFirst(anc) ==
    LET container == detectContainer(anc)
        supervisor == detectSupervisor(anc)
        cron == detectCron(anc)
        shell == detectShell(anc)
        init == detectInit(anc)
    IN  IF supervisor # {Nil} THEN supervisor
        ELSE IF container # Nil THEN {container}
        ELSE IF cron # Nil THEN {cron}
        ELSE IF shell # Nil THEN {shell}
        ELSE IF init # Nil THEN {init}
        ELSE {UnknownSource}

\* Detect: the set of Sources the call can return (more than one only through
\* the map iteration of detectSupervisor)
Detect(anc) ==
    LET container == detectContainer(anc)
        supervisor == detectSupervisor(anc)
        cron == detectCron(anc)
        shell == detectShell(anc)
        init == detectInit(anc)
    IN  IF container # Nil THEN {container}
        ELSE IF supervisor # {Nil} THEN supervisor
        ELSE IF cron # Nil THEN {cron}
        ELSE IF shell # Nil THEN {shell}
        ELSE IF init # Nil THEN {init}
        ELSE {UnknownSource}

(***************************************************************************)
(* detect.Warnings                                                         *)
(***************************************************************************)
\* mutant: only the IPv4 any-address is recognised
isPublicBindV4Only(addrs) == \E i \in 1..Len(addrs) : addrs[i] = "0.0.0.0"

\* isPublicBind: any address is "0.0.0.0" or "::"
isPublicBind(addrs) == \E i \in 1..Len(addrs) : addrs[i] = "0.0.0.0" \/ addrs[i] = "::"

\* mutant: the zombie case falls through into the stopped case
healthWarningFallthrough(health) ==
    CASE health = "zombie" -> <<"Process is a zombie (defunct)", "Process is stopped">>
      [] health = "stopped" -> <<"Process is stopped">>
      [] health = "high-cpu" -> <<"Process is using high CPU (>2h total)">>
      [] health = "high-mem" -> <<"Process is using high memory (>1GB RSS)">>
      [] OTHER -> <<>>

\* the switch on last.GetHealth()
healthWarning(health) ==
    CASE health = "zombie" -> <<"Process is a zombie (defunct)">>
      [] health = "stopped" -> <<"Process is stopped">>
      [] health = "high-cpu" -> <<"Process is using high CPU (>2h total)">>
      [] health = "high-mem" -> <<"Process is using high memory (>1GB RSS)">>
      [] OTHER -> <<>>

publicWarning(last) ==
    IF isPublicBind(last.BindAddresses)
    THEN <<"Process is listening on a public interface">> ELSE <<>>

\* mutant: the user is compared with the numeric id
rootWarningUid(last) ==
    IF last.User = "0" THEN <<"Process is running as root">> ELSE <<>>

rootWarning(last) ==
    IF last.User = "root" THEN <<"Process is running as root">> ELSE <<>>

dirWarning(last) ==
    IF last.WorkingDir = "/" \/ last.WorkingDir = "/tmp" \/ last.WorkingDir = "/var/tmp"
    THEN <<"Process running from suspicious directory: " \o last.WorkingDir>> ELSE <<>>

\* time.Since(last.GetStartedAt()).Hours() > 90*24
longWarning(last) ==
    IF NowHours - last.StartedAt > 90 * 24
    THEN <<"Process has been running for over 90 days">> ELSE <<>>

\* mutant: the warning is tied to a low confidence instead of the type
unknownWarningLowConfidence(source) ==
    IF source.Confidence <= 5 THEN <<"No known supervisor detected">> ELSE <<>>

unknownWarning(source) ==
    IF source.Type = "unknown" THEN <<"No known supervisor detected">> ELSE <<>>

\* mutant: the rules read the first element of the ancestry
warningsOfFirst(anc) ==
    LET last == At(anc, 1)
    IN  IF last = Panic THEN {Panic}
        ELSE {Returned(healthWarning(last.Health) \o publicWarning(last) \o rootWarning(last)
                       \o dirWarning(last) \o longWarning(last) \o unknownWarning(source)) :
                 source \in Detect(anc)}

\* mutant: the root rule is an else-branch of the public-interface rule
warningsOfLastElseIf(anc) ==
    LET last == At(anc, Len(anc))
    IN  IF last = Panic THEN {Panic}
        ELSE {Returned(healthWarning(last.Health) \o publicWarning(last)
                       \o (IF publicWarning(last) = <<>> THEN rootWarning(last) ELSE <<>>)
                       \o dirWarning(last) \o longWarning(last) \o unknownWarning(source)) :
                 source \in Detect(anc)}

\* the rules of Warnings after the empty-ancestry guard
warningsOfLast(anc) ==
    LET last == At(anc, Len(anc))
    IN  IF last = Panic THEN {Panic}
        ELSE {Returned(healthWarning(last.Health) \o publicWarning(last)
                       \o rootWarning(last) \o dirWarning(last) \o longWarning(last)
                       \o unknownWarning(source)) : source \in Detect(anc)}

\* mutant: the empty ancestry is not guarded
WarningsNoGuard(anc) == warningsOfLast(anc)

\* Warnings: the set of results the call can produce
Warnings(anc) ==
    IF Len(anc) = 0 THEN {Returned(<<>>)} ELSE warningsOfLast(anc)

ChainIds(anc) == {anc[i].PID : i \in 1..Len(anc)}

NoDuplicateIds(anc) ==
    \A i \in 1..Len(anc) : \A j \in 1..Len(anc) : anc[i].PID = anc[j].PID => i = j

(***************************************************************************)
(* The hosts the runs are drawn from.                                      *)
(***************************************************************************)
s_node == <<"n", "o", "d", "e">>
s_plainCgroup == <<"0", ":", ":", "/">>
s_dockerCgroup == <<"0", ":", ":", "/", "d", "o", "c", "k", "e", "r", "/", "a", "b">>
s_serviceLabel == <<"s", "y", "s", "t", "e", "m", "/", "a", ".", "b">>

\* the host of the ancestry-builder runs: process p with parent ppid
HostProcess(p, ppid, plat) ==
    Process(p, ppid,
            IF p = 1 THEN (IF plat = "linux" THEN s_systemd ELSE s_launchd)
            ELSE IF p = 2 THEN s_bash ELSE s_node,
            IF p = 1 THEN s_slash ELSE IF p = 2 THEN s_bash ELSE s_node,
            IF p = 1 THEN "root" ELSE "app", NowHours - 24 * p, "/srv",
            IF p = 2 THEN <<>> ELSE <<"0.0.0.0">>, "healthy")

HostCgroups ==
       <<"1">> :> s_plainCgroup
    @@ <<"2">> :> s_plainCgroup
    @@ <<"3">> :> s_dockerCgroup
    @@ <<"4">> :> s_plainCgroup

HostLaunchctl == 3 :> s_serviceLabel

\* the processes ancestries handed directly to Detect and Warnings are made of
p_systemd ==
    Process(1, 0, <<"s", "y", "s", "t", "e", "m", "d">>,
            <<"/", "s", "b", "i", "n", "/", "i", "n", "i", "t">>,
            "root", NowHours - 120 * 24, "/", <<>>, "healthy")
p_launchd ==
    Process(1, 0, <<"l", "a", "u", "n", "c", "h", "d">>,
            <<"/", "s", "b", "i", "n", "/", "l", "a", "u", "n", "c", "h", "d">>,
            "root", NowHours - 90 * 24, "/", <<>>, "healthy")
p_dockerd ==
    Process(50, 1, <<"d", "o", "c", "k", "e", "r", "d">>,
            <<"d", "o", "c", "k", "e", "r", "d">>,
            "root", NowHours - 24, "/", <<"0.0.0.0">>, "high-mem")
p_node ==
    Process(99, 50, <<"n", "o", "d", "e">>,
            <<"n", "o", "d", "e", " ", "a", "p", "p">>,
            "app", NowHours - 24, "/srv/app", <<"127.0.0.1">>, "healthy")
p_crond ==
    Process(200, 1, <<"c", "r", "o", "n", "d">>,
            <<"c", "r", "o", "n", "d", " ", "-", "n">>,
            "root", NowHours - 91 * 24, "/var/tmp", <<>>, "healthy")
p_myjob ==
    Process(300, 200, <<"m", "y", "j", "o", "b">>,
            <<"m", "y", "j", "o", "b">>,
            "app", NowHours - 1, "/tmp", <<"127.0.0.1", "::">>, "zombie")
p_anacron ==
    Process(201, 1, <<"a", "n", "a", "c", "r", "o", "n">>,
            <<"a", "n", "a", "c", "r", "o", "n", " ", "-", "s">>,
            "root", NowHours - 24, "/", <<>>, "stopped")
p_bash ==
    Process(2, 1, <<"b", "a", "s", "h">>,
            <<"-", "b", "a", "s", "h">>,
            "app", NowHours - 24, "/home/app", <<>>, "healthy")
p_python ==
    Process(7, 2, <<"p", "y", "t", "h", "o", "n">>,
            <<"p", "y", "t", "h", "o", "n", " ", "g", "u", "n", "i", "c", "o", "r", "n", " ", "u", "w", "s", "g", "i">>,
            "app", NowHours - 24, "/srv/app", <<"0.0.0.0", "::">>, "high-cpu")
p_pm2 ==
    Process(8, 1, <<"P", "M", "2", " ", "v", "5">>,
            <<"P", "M", "2", " ", "v", "5", ":", " ", "G", "o", "d">>,
            "app", NowHours - 200 * 24, "/srv/app", <<>>, "healthy")
p_supervisord ==
    Process(9, 1, <<"s", "u", "p", "e", "r", "v", "i", "s", "o", "r", "d">>,
            <<"s", "u", "p", "e", "r", "v", "i", "s", "o", "r", "d", " ", "-", "n">>,
            "root", NowHours - 24, "/etc", <<>>, "healthy")
p_redis ==
    Process(60, 1, <<"r", "e", "d", "i", "s">>,
            <<"r", "e", "d", "i", "s">>,
            "redis", NowHours - 24, "/data", <<"0.0.0.0">>, "healthy")
p_sleep ==
    Process(61, 1, <<"s", "l", "e", "e", "p">>,
            <<"s", "l", "e", "e", "p", " ", "9">>,
            "app", NowHours - 24, "/", <<>>, "healthy")
DetectHost ==
    {p_systemd, p_launchd, p_dockerd, p_node, p_crond, p_myjob, p_anacron,
     p_bash, p_python, p_pm2, p_supervisord, p_redis, p_sleep}

\* the cgroup files of that host: none for pid 50
DetectHostCgroups ==
       <<"1">> :> <<"0", ":", ":", "/">>
    @@ <<"2">> :> <<"0", ":", ":", "/">>
    @@ <<"7">> :> <<"0", ":", ":", "/">>
    @@ <<"8">> :> <<"0", ":", ":", "/">>
    @@ <<"9">> :> <<"0", ":", ":", "/">>
    @@ <<"2", "0", "0">> :> <<"0", ":", ":", "/">>
    @@ <<"2", "0", "1">> :> <<"0", ":", ":", "/">>
    @@ <<"3", "0", "0">> :> <<"0", ":", ":", "/">>
    @@ <<"9", "9">> :> <<"0", ":", ":", "/", "k", "u", "b", "e", "p", "o", "d", "s", "/", "p", "o", "d", "1">>
    @@ <<"6", "0">> :> <<"0", ":", ":", "/", "d", "o", "c", "k", "e", "r", "/", "a", "b">>
    @@ <<"6", "1">> :> <<"0", ":", ":", "/", "c", "o", "n", "t", "a", "i", "n", "e", "r", "d">>

\* what launchctl blame prints for the pids it knows on that host
DetectHostLaunchctl ==
       1 :> <<"s", "y", "s", "t", "e", "m", "/", "l">>
    @@ 50 :> <<"s", "y", "s", "t", "e", "m", "/", "a", ".", "b">>
    @@ 300 :> <<"g", "u", "i", "/", "5", "0", "1", "/", "c", ".", "d">>
    @@ 200 :> <<"s", "v", "c">>
    @@ 7 :> <<"s", "y", "s", "t", "e", "m", "/">>
    @@ 2 :> <<" ", "g", "u", "i", "/", "x", "\n">>

(***************************************************************************)
(* main: BuildAncestry, then Detect and Warnings                           *)
(***************************************************************************)
\* mutant: the empty ancestry is not checked
MainNeverFails(anc) == FALSE

\* if err != nil || len(ancestry) == 0 { os.Exit(1) }; BuildAncestry's err is always nil
MainFails(anc) == Len(anc) = 0

MainCheck ==
    /\ pc = "built"
    /\ IF MainFails(ancestry)
       THEN pc' = "exit" /\ exitCode' = 1
       ELSE \E envFlag \in BOOLEAN :
               IF envFlag
               THEN pc' = "exit" /\ exitCode' = 0
               ELSE pc' = "detect" /\ exitCode' = exitCode
    /\ UNCHANGED <<env, pid, seen, chain, reads, ancestry, src, src2, warnings>>

\* src := detect.Detect(procs)
MainDetect ==
    /\ pc = "detect"
    /\ src' \in Detect(ancestry)
    /\ pc' = "warn"
    /\ UNCHANGED <<env, pid, seen, chain, reads, ancestry, src2, warnings, exitCode>>

\* warnings := detect.Warnings(procs)
MainWarnings ==
    /\ pc = "warn"
    /\ warnings' \in Warnings(ancestry)
    /\ pc' = "render"
    /\ UNCHANGED <<env, pid, seen, chain, reads, ancestry, src, src2, exitCode>>

\* the renderers, then main returns
MainRender ==
    /\ pc = "render"
    /\ pc' = "exit"
    /\ exitCode' = 0
    /\ UNCHANGED <<env, pid, seen, chain, reads, ancestry, src, src2, warnings>>

\* the host: any set of processes among 1..MaxPid, each naming any parent in
\* 0..MaxPid (itself, a missing process and a descendant included)
Init ==
    /\ platform \in {"linux", "darwin"}
    /\ \E R \in SUBSET (1..MaxPid) : \E pp \in [R -> 0..MaxPid] :
          procTable = [p \in R |-> HostProcess(p, pp[p], platform)]
    /\ cgroupFiles = IF platform = "linux" THEN HostCgroups ELSE <<>>
    /\ launchctlOut = HostLaunchctl
    /\ target \in 0..MaxPid
    /\ pid = target
    /\ seen = {}
    /\ chain = <<>>
    /\ reads = <<>>
    /\ pc = "loop"
    /\ ancestry = <<>>
    /\ src = NotComputed
    /\ src2 = NotComputed
    /\ warnings = NotComputed
    /\ exitCode = -1

Next ==
    \/ BuildStep
    \/ BuildExit
    \/ BuildReturn
    \/ MainCheck
    \/ MainDetect
    \/ MainWarnings
    \/ MainRender

Spec == Init /\ [][Next]_vars

\* BuildAncestry is sequential code on one thread: whichever step of it is
\* next is taken (Read blocks, but returns)
FairSpec ==
    /\ Spec
    /\ WF_vars(BuildStep)
    /\ WF_vars(BuildExit)
    /\ WF_vars(BuildReturn)

(***************************************************************************)
(* Detect and Warnings called directly, on any ancestry of at most         *)
(* MaxChain processes of DetectHost with distinct identifiers, in any      *)
(* order, the empty one included.                                          *)
(***************************************************************************)
CallDetect ==
    /\ pc = "call"
    /\ src' \in Detect(ancestry)
    /\ pc' = "called"
    /\ UNCHANGED <<env, pid, seen, chain, reads, ancestry, src2, warnings, exitCode>>

CallDetectAgain ==
    /\ pc = "called"
    /\ src2' \in Detect(ancestry)
    /\ pc' = "called twice"
    /\ UNCHANGED <<env, pid, seen, chain, reads, ancestry, src, warnings, exitCode>>

CallWarnings ==
    /\ pc = "called twice"
    /\ warnings' \in Warnings(ancestry)
    /\ pc' = "end"
    /\ UNCHANGED <<env, pid, seen, chain, reads, ancestry, src, src2, exitCode>>

InitDetect ==
    /\ platform \in {"linux", "darwin"}
    /\ procTable = <<>>
    /\ cgroupFiles = DetectHostCgroups
    /\ launchctlOut = DetectHostLaunchctl
    /\ target = 0
    /\ pid = 0
    /\ seen = {}
    /\ chain = <<>>
    /\ reads = <<>>
    /\ pc = "call"
    /\ ancestry \in UNION {[1..n -> DetectHost] : n \in 0..MaxChain}
    /\ NoDuplicateIds(ancestry)
    /\ src = NotComputed
    /\ src2 = NotComputed
    /\ warnings = NotComputed
    /\ exitCode = -1

NextDetect ==
    \/ CallDetect
    \/ CallDetectAgain
    \/ CallWarnings

SpecDetect == InitDetect /\ [][NextDetect]_vars

(***************************************************************************)
(* Properties of BuildAncestry and main.                                   *)
(***************************************************************************)
\* BuildAncestry has returned; ancestry is what it returned
HasReturned == pc \notin {"loop", "return"}

TargetReadable == target \in DOMAIN procTable

NoRepeatedRead ==
    \A i \in 1..Len(reads) : \A j \in 1..Len(reads) : reads[i] = reads[j] => i = j

\* C1 as stated: for a readable target the returned sequence ends at the
\* target, starts at an element with identifier 1 or parent identifier 0, and
\* has no identifier twice.
C1_AncestryStartsAtInit ==
    (HasReturned /\ TargetReadable) =>
        /\ Len(ancestry) >= 1
        /\ ancestry[Len(ancestry)].PID = target
        /\ (ancestry[1].PID = 1 \/ ancestry[1].PPID = 0)
        /\ NoDuplicateIds(ancestry)

\* C1 amended: for a readable target the returned sequence ends at the target,
\* has no identifier twice, and starts at an element that has identifier 1 or
\* parent identifier 0, or whose parent identifier cannot be read or is
\* already in the sequence.
C1_AncestryStartsAtInitOrTruncation ==
    (HasReturned /\ TargetReadable) =>
        /\ Len(ancestry) >= 1
        /\ ancestry[Len(ancestry)].PID = target
        /\ \/ ancestry[1].PID = 1
           \/ ancestry[1].PPID = 0
           \/ ancestry[1].PPID \notin DOMAIN procTable
           \/ ancestry[1].PPID \in ChainIds(ancestry)
        /\ NoDuplicateIds(ancestry)

\* a cycle stopped the climb: the topmost element's parent is lower in the chain
C1_Witness ==
    /\ pc = "built"
    /\ TargetReadable
    /\ Len(ancestry) >= 2
    /\ ancestry[1].PID # 1
    /\ ancestry[1].PPID \in ChainIds(ancestry)
    /\ ancestry[Len(ancestry)].PID = target

\* the identifiers of the parent graph: the requested one, the processes, and
\* the parents they name
GraphIds ==
    {i \in {target} \cup DOMAIN procTable
           \cup {procTable[p].PPID : p \in DOMAIN procTable} : i > 0}

\* A's parent is B and B's parent is A
TwoCycle(a) ==
    /\ a \in DOMAIN procTable
    /\ procTable[a].PPID # a
    /\ procTable[a].PPID \in DOMAIN procTable
    /\ procTable[procTable[a].PPID].PPID = a

\* C2: BuildAncestry terminates on every parent graph; it never reads an
\* identifier twice and reads at most as many as the graph has; on a 2-cycle
\* the result has at most 2 elements.
C2_TerminatesWithinGraph ==
    /\ <>HasReturned
    /\ [](/\ NoRepeatedRead
          /\ Len(reads) <= Cardinality(GraphIds)
          /\ ((HasReturned /\ TwoCycle(target)) => Len(ancestry) <= 2))

\* the climb went round a 2-cycle and stopped
C2_Witness ==
    /\ HasReturned
    /\ TwoCycle(target)
    /\ Len(reads) = 2
    /\ Len(ancestry) = 2

\* C3: an unreadable target yields the empty ancestry and main exits with
\* status 1 without computing Source or Warnings; for a positive target the
\* ancestry is empty only then.
C3_UnreadableTargetFails ==
    /\ (HasReturned /\ ~TargetReadable) => ancestry = <<>>
    /\ ~TargetReadable =>
          /\ src = NotComputed
          /\ warnings = NotComputed
          /\ pc \notin {"detect", "warn", "render"}
          /\ (pc = "exit" => exitCode = 1)
    /\ (HasReturned /\ target > 0 /\ ancestry = <<>>) => ~TargetReadable

C3_Witness ==
    /\ pc = "exit"
    /\ exitCode = 1
    /\ target > 0
    /\ ~TargetReadable
    /\ reads = <<target>>
    /\ ancestry = <<>>

\* the read of an ancestor above a readable target has failed
ChainTruncated ==
    /\ HasReturned
    /\ TargetReadable
    /\ reads # <<>>
    /\ reads[Len(reads)] \notin DOMAIN procTable

\* C4: when a read above a readable target fails, the result is the chain of
\* the processes read before it, from the last one read down to the target;
\* the failed identifier is read once and main does not fail.
C4_TruncatedChainIsKept ==
    ChainTruncated =>
        /\ Len(ancestry) >= 1
        /\ Len(ancestry) = Len(reads) - 1
        /\ NoRepeatedRead
        /\ \A i \in 1..Len(ancestry) :
              ancestry[i] = Read(reads[Len(ancestry) + 1 - i])
        /\ ancestry[1].PPID = reads[Len(reads)]
        /\ ancestry[Len(ancestry)].PID = target
        /\ ~(pc = "exit" /\ exitCode = 1)

C4_Witness ==
    /\ ChainTruncated
    /\ pc = "exit"
    /\ Len(ancestry) >= 2
    /\ warnings # NotComputed

(***************************************************************************)
(* Properties of Detect and Warnings.                                      *)
(*                                                                         *)
(* The evidence an ancestry holds is stated here on the ancestry and the   *)
(* files themselves, not through the classifiers.                          *)
(***************************************************************************)
DetectCalled == pc \in {"called", "called twice", "end"}

ContainerEvidenceAt(p) ==
    /\ itoa(p.PID) \in DOMAIN cgroupFiles
    /\ \E marker \in {s_docker, s_containerd, s_kubepods} :
          Contains(cgroupFiles[itoa(p.PID)], marker)

SupervisorEvidenceAt(p) ==
    \/ Contains(ToLower(p.Command), s_pm2)
    \/ Contains(ToLower(p.Cmdline), s_pm2)
    \/ \E sup \in DOMAIN supervisors :
          ToLower(p.Command) = sup \/ Contains(ToLower(p.Cmdline), sup)

CronEvidenceAt(p) == p.Command = s_cron \/ p.Command = s_crond

ShellEvidenceAt(p) == p.Command \in {s_bash, s_zsh, s_sh, s_fish}

InitEvidenceAt(p) ==
    /\ p.PID = 1
    /\ p.Command = (IF platform = "linux" THEN s_systemd ELSE s_launchd)

HasEvidence(At_(_), anc) == \E i \in 1..Len(anc) : At_(anc[i])

\* the category the priority order container > supervisor > cron > shell >
\* init assigns to an ancestry
PriorityCategory(anc) ==
    IF HasEvidence(ContainerEvidenceAt, anc) THEN "container"
    ELSE IF HasEvidence(SupervisorEvidenceAt, anc) THEN "supervisor"
    ELSE IF HasEvidence(CronEvidenceAt, anc) THEN "cron"
    ELSE IF HasEvidence(ShellEvidenceAt, anc) THEN "shell"
    ELSE IF HasEvidence(InitEvidenceAt, anc)
    THEN (IF platform = "linux" THEN "systemd" ELSE "launchd")
    ELSE "unknown"

\* C5: the Source's type is that of the highest-priority category for which
\* the ancestry holds evidence anywhere, however near the target the evidence
\* of a lower category is.
C5_PriorityOrderIsAbsolute ==
    DetectCalled => src.Type = PriorityCategory(ancestry)

\* container evidence at the top, a registered supervisor below it as target
C5_Witness ==
    /\ DetectCalled
    /\ Len(ancestry) = 2
    /\ ContainerEvidenceAt(ancestry[1])
    /\ ~ContainerEvidenceAt(ancestry[2])
    /\ ToLower(ancestry[2].Command) \in DOMAIN supervisors
    /\ src.Type = "container"

\* C6: two calls of Detect on the same ancestry, with the same files and the
\* same launchctl output, return the same Source.
C6_DetectIsDeterministic ==
    (pc \in {"called twice", "end"}) => src = src2

\* C7: the confidence of the returned Source lies in [0.0, 1.0] (in tenths:
\* 0..10), whichever classifier produced it.
C7_ConfidenceInUnitInterval ==
    /\ src # NotComputed => (src.Confidence >= 0 /\ src.Confidence <= 10)
    /\ src2 # NotComputed => (src2.Confidence >= 0 /\ src2.Confidence <= 10)

\* launchd with a resolved service label: the highest confidence of the init branch
C7_Witness ==
    /\ DetectCalled
    /\ src.Type = "launchd"
    /\ src.Details # NoDetails
    /\ src.Confidence = 9

\* C8: Detect and Warnings return a value for every ancestry; Detect returns
\* Unknown, with confidence 0.2, exactly when the ancestry holds no evidence of
\* any category; Warnings of the empty ancestry is the empty list.
C8_DetectAndWarningsAreTotal ==
    /\ pc = "call" => (Detect(ancestry) # {} /\ Warnings(ancestry) # {})
    /\ DetectCalled =>
          /\ src # Panic
          /\ src.Type = "unknown" <=>
                ~\E i \in 1..Len(ancestry) :
                    \/ ContainerEvidenceAt(ancestry[i])
                    \/ SupervisorEvidenceAt(ancestry[i])
                    \/ CronEvidenceAt(ancestry[i])
                    \/ ShellEvidenceAt(ancestry[i])
                    \/ InitEvidenceAt(ancestry[i])
          /\ src.Type = "unknown" =>
                src = [Type |-> "unknown", Name |-> <<>>, Confidence |-> 2, Details |-> {}]
    /\ pc = "end" =>
          /\ warnings # Panic
          /\ DOMAIN warnings = {"value"}
          /\ ancestry = <<>> => warnings = Returned(<<>>)

C8_Witness ==
    /\ pc = "end"
    /\ ancestry = <<>>
    /\ src.Type = "unknown"
    /\ src.Confidence = 2
    /\ warnings = Returned(<<>>)

\* C9: container evidence on any element of the ancestry makes Detect return
\* {container, "container", 0.9}.
C9_ContainerAnywhereWins ==
    (DetectCalled /\ HasEvidence(ContainerEvidenceAt, ancestry)) =>
        src = [Type |-> "container", Name |-> s_container, Confidence |-> 9, Details |-> {}]

\* [systemd(1), dockerd(50), node(99, kubepods)]
C9_Witness ==
    /\ DetectCalled
    /\ Len(ancestry) = 3
    /\ ancestry[1].PID = 1 /\ ancestry[1].Command = s_systemd
    /\ ancestry[2].PID = 50 /\ ancestry[2].Command = <<"d", "o", "c", "k", "e", "r", "d">>
    /\ ancestry[3].PID = 99 /\ ancestry[3].Command = s_node
    /\ Contains(cgroupFiles[<<"9", "9">>], s_kubepods)
    /\ src = [Type |-> "container", Name |-> s_container, Confidence |-> 9, Details |-> {}]

\* C10: without container and supervisor evidence, Detect returns {cron,
\* "cron", 0.6} when some short command is exactly "cron" or "crond", and no
\* cron Source when none is, whatever the commands contain.
C10_ExactCronMatch ==
    (/\ DetectCalled
     /\ ~HasEvidence(ContainerEvidenceAt, ancestry)
     /\ ~HasEvidence(SupervisorEvidenceAt, ancestry)) =>
        IF HasEvidence(CronEvidenceAt, ancestry)
        THEN src = [Type |-> "cron", Name |-> s_cron, Confidence |-> 6, Details |-> {}]
        ELSE src.Type # "cron"

\* [systemd(1), crond(200), myjob(300)]
C10_Witness ==
    /\ DetectCalled
    /\ Len(ancestry) = 3
    /\ ancestry[1].PID = 1 /\ ancestry[1].Command = s_systemd
    /\ ancestry[2].PID = 200 /\ ancestry[2].Command = s_crond
    /\ ancestry[3].PID = 300 /\ ancestry[3].Command = <<"m", "y", "j", "o", "b">>
    /\ src = [Type |-> "cron", Name |-> s_cron, Confidence |-> 6, Details |-> {}]

(***************************************************************************)
(* Warnings called on a target that takes every combination of health,     *)
(* bind addresses, user, working directory and age, alone or below one     *)
(* ancestor.                                                               *)
(***************************************************************************)
s_myjob == <<"m", "y", "j", "o", "b">>

WarnHealths == {"healthy", "zombie", "stopped", "high-cpu", "high-mem"}

WarnBinds ==
    {<<>>, <<"127.0.0.1">>, <<"0.0.0.0">>, <<"127.0.0.1", "::">>, <<"0.0.0.0", "::">>}

WarnUsers == {"root", "app"}

WarnDirs == {"/", "/tmp", "/var/tmp", "/srv/app", "/tmp/build"}

\* started 120 days, 90 days and an hour, exactly 90 days, and one hour ago
WarnStarts == {NowHours - 120 * 24, NowHours - 90 * 24 - 1, NowHours - 90 * 24, NowHours - 1}

\* a target with no supervisor of any kind in its own name, or a shell
WarnCommands == {s_myjob, s_bash}

WarnTargets ==
    {Process(300, 200, command, command, user, started, dir, binds, health) :
        command \in WarnCommands, user \in WarnUsers, started \in WarnStarts,
        dir \in WarnDirs, binds \in WarnBinds, health \in WarnHealths}

\* the ancestors put above the target: one that would trip every rule itself,
\* one that trips none, and a shell
WarnAncestors ==
    {Process(200, 1, s_myjob, s_myjob, "root", NowHours - 200 * 24, "/tmp",
             <<"0.0.0.0">>, "zombie"),
     Process(201, 1, s_myjob, s_myjob, "app", NowHours - 1, "/srv/app",
             <<"127.0.0.1">>, "healthy"),
     Process(2, 1, s_bash, s_bash, "app", NowHours - 1, "/home/app", <<>>, "stopped")}

InitWarn ==
    /\ platform = "linux"
    /\ procTable = <<>>
    /\ cgroupFiles = <<>>
    /\ launchctlOut = <<>>
    /\ target = 0
    /\ pid = 0
    /\ seen = {}
    /\ chain = <<>>
    /\ reads = <<>>
    /\ pc = "call"
    /\ \E t \in WarnTargets :
          ancestry \in {<<t>>} \cup {<<a, t>> : a \in WarnAncestors}
    /\ src = NotComputed
    /\ src2 = NotComputed
    /\ warnings = NotComputed
    /\ exitCode = -1

SpecWarn == InitWarn /\ [][NextDetect]_vars

(***************************************************************************)
(* Properties of Warnings.                                                 *)
(***************************************************************************)
WarningsCalled == pc = "end"

\* the target of a non-empty ancestry
Target(anc) == anc[Len(anc)]

\* how often the text occurs in the list
Occurrences(list, text) == Cardinality({i \in 1..Len(list) : list[i] = text})

HealthAdvisories ==
    {"Process is a zombie (defunct)", "Process is stopped",
     "Process is using high CPU (>2h total)", "Process is using high memory (>1GB RSS)"}

HealthAdvisoryOf(health) ==
    CASE health = "zombie" -> "Process is a zombie (defunct)"
      [] health = "stopped" -> "Process is stopped"
      [] health = "high-cpu" -> "Process is using high CPU (>2h total)"
      [] health = "high-mem" -> "Process is using high memory (>1GB RSS)"

\* C11: the list holds at most one health advisory: the one of the target's
\* label, once, when the label is zombie, stopped, high-cpu or high-mem, and
\* none when the target is healthy.
C11_OneHealthAdvisory ==
    (WarningsCalled /\ Len(ancestry) > 0) =>
        LET list == warnings.value
            health == Target(ancestry).Health
        IN  IF health = "healthy"
            THEN \A text \in HealthAdvisories : Occurrences(list, text) = 0
            ELSE \A text \in HealthAdvisories :
                    Occurrences(list, text) = (IF text = HealthAdvisoryOf(health) THEN 1 ELSE 0)

\* a zombie target below an ancestor that is stopped
C11_Witness ==
    /\ WarningsCalled
    /\ Len(ancestry) = 2
    /\ ancestry[1].Health = "stopped"
    /\ ancestry[2].Health = "zombie"
    /\ Occurrences(warnings.value, "Process is a zombie (defunct)") = 1
    /\ Occurrences(warnings.value, "Process is stopped") = 0

PublicAdvisory == "Process is listening on a public interface"

\* C12: the public-exposure warning is in the list, once, when one of the
\* target's bind addresses is "0.0.0.0" or "::", and absent otherwise.
C12_PublicExposureIffAnyAddress ==
    (WarningsCalled /\ Len(ancestry) > 0) =>
        LET addrs == Target(ancestry).BindAddresses
        IN  Occurrences(warnings.value, PublicAdvisory) =
               (IF \E i \in 1..Len(addrs) : addrs[i] \in {"0.0.0.0", "::"} THEN 1 ELSE 0)

\* two any-addresses, one warning
C12_Witness ==
    /\ WarningsCalled
    /\ Target(ancestry).BindAddresses = <<"0.0.0.0", "::">>
    /\ Occurrences(warnings.value, PublicAdvisory) = 1

\* user root, bound to 0.0.0.0, healthy, 120 days old
C13_Scenario ==
    /\ Len(ancestry) > 0
    /\ Target(ancestry).User = "root"
    /\ Target(ancestry).BindAddresses = <<"0.0.0.0">>
    /\ Target(ancestry).Health = "healthy"
    /\ Target(ancestry).StartedAt = NowHours - 120 * 24

C13_ThreeEntries ==
    <<"Process is listening on a public interface", "Process is running as root",
      "Process has been running for over 90 days">>

\* C13 as stated: in the scenario Warnings returns exactly public-exposure,
\* root-privilege, long-running.
C13_ScenarioYieldsThree ==
    (WarningsCalled /\ C13_Scenario) => warnings.value = C13_ThreeEntries

\* C13 amended: in the scenario, with a working directory other than "/",
\* "/tmp" and "/var/tmp" and a Source other than Unknown, Warnings returns
\* exactly public-exposure, root-privilege, long-running.
C13_ScenarioYieldsThreeWhenSupervised ==
    (/\ WarningsCalled
     /\ C13_Scenario
     /\ Target(ancestry).WorkingDir \notin {"/", "/tmp", "/var/tmp"}
     /\ src.Type # "unknown") => warnings.value = C13_ThreeEntries

C13_Witness ==
    /\ WarningsCalled
    /\ C13_Scenario
    /\ Target(ancestry).WorkingDir = "/srv/app"
    /\ src.Type = "shell"
    /\ warnings.value = C13_ThreeEntries

(***************************************************************************)
(* Detect called on ancestries of processes that differ in the branch of   *)
(* detectSupervisor they take; no process has a cgroup file.               *)
(***************************************************************************)
\* command "pm2": the pm2 test and the registry both apply
v_pm2 ==
    Process(8, 1, <<"p", "m", "2">>,
            <<"p", "m", "2", " ", "s", "t", "a", "r", "t", " ", "a", "p", "p">>,
            "app", NowHours - 1, "/srv/app", <<>>, "healthy")

\* pm2 only in the command line, in upper case
v_nodePm2 ==
    Process(10, 1, <<"n", "o", "d", "e">>,
            <<"n", "o", "d", "e", " ", "/", "o", "p", "t", "/", "P", "M", "2", "/", "D", "a", "e", "m", "o", "n", ".", "j", "s">>,
            "app", NowHours - 1, "/srv/app", <<>>, "healthy")

\* a registered command
v_supervisord ==
    Process(9, 1, <<"s", "u", "p", "e", "r", "v", "i", "s", "o", "r", "d">>,
            <<"s", "u", "p", "e", "r", "v", "i", "s", "o", "r", "d", " ", "-", "n">>,
            "app", NowHours - 1, "/srv/app", <<>>, "healthy")

\* a registered command in upper case, another registry key in its command line
v_runsv ==
    Process(11, 1, <<"R", "u", "n", "S", "V">>,
            <<"r", "u", "n", "s", "v", " ", "g", "u", "n", "i", "c", "o", "r", "n">>,
            "app", NowHours - 1, "/srv/app", <<>>, "healthy")

\* one registry key in the command line only
v_gunicornWorker ==
    Process(7, 1, <<"p", "y", "t", "h", "o", "n">>,
            <<"p", "y", "t", "h", "o", "n", " ", "-", "m", " ", "G", "u", "n", "i", "c", "o", "r", "n", " ", "a", "p", "p">>,
            "app", NowHours - 1, "/srv/app", <<>>, "healthy")

\* two registry keys in the command line only
v_twoKeys ==
    Process(12, 1, <<"p", "y", "t", "h", "o", "n">>,
            <<"p", "y", "t", "h", "o", "n", " ", "u", "w", "s", "g", "i", " ", "m", "o", "n", "i", "t">>,
            "app", NowHours - 1, "/srv/app", <<>>, "healthy")

\* no supervisor of any kind
v_plain ==
    Process(300, 1, <<"m", "y", "j", "o", "b">>,
            <<"m", "y", "j", "o", "b", " ", "-", "-", "o", "n", "c", "e">>,
            "app", NowHours - 1, "/srv/app", <<>>, "healthy")

\* a shell
v_shell ==
    Process(2, 1, <<"b", "a", "s", "h">>,
            <<"b", "a", "s", "h">>,
            "app", NowHours - 1, "/srv/app", <<>>, "healthy")

SupervisorHost ==
    {v_pm2, v_nodePm2, v_supervisord, v_runsv, v_gunicornWorker, v_twoKeys, v_plain, v_shell}

InitSupervisor ==
    /\ platform = "linux"
    /\ procTable = <<>>
    /\ cgroupFiles = <<>>
    /\ launchctlOut = <<>>
    /\ target = 0
    /\ pid = 0
    /\ seen = {}
    /\ chain = <<>>
    /\ reads = <<>>
    /\ pc = "call"
    /\ ancestry \in {a \in UNION {[1..n -> SupervisorHost] : n \in 1..MaxChain} :
                         NoDuplicateIds(a)}
    /\ src = NotComputed
    /\ src2 = NotComputed
    /\ warnings = NotComputed
    /\ exitCode = -1

SpecSupervisor == InitSupervisor /\ [][NextDetect]_vars

(***************************************************************************)
(* Properties of detectSupervisor.                                         *)
(***************************************************************************)
\* the index nearest to the target at which the predicate holds
Nearest(At_(_), anc) ==
    CHOOSE i \in 1..Len(anc) : At_(anc[i]) /\ \A j \in (i + 1)..Len(anc) : ~At_(anc[j])

Pm2EvidenceAt(p) ==
    Contains(ToLower(p.Command), s_pm2) \/ Contains(ToLower(p.Cmdline), s_pm2)

\* C14: without container evidence, the Source is the verdict on the process
\* nearest to the target that matches any of the three tests, and within that
\* process the pm2 substring (pm2, 0.9) comes before the exact registry
\* command (its name, 0.7), which comes before a registry key contained in
\* the command line (that key's name, 0.7).
C14_NearestSupervisorWins ==
    (/\ DetectCalled
     /\ ~HasEvidence(ContainerEvidenceAt, ancestry)
     /\ HasEvidence(SupervisorEvidenceAt, ancestry)) =>
        LET p == ancestry[Nearest(SupervisorEvidenceAt, ancestry)]
            cmd == ToLower(p.Command)
            cmdline == ToLower(p.Cmdline)
        IN  /\ src.Type = "supervisor"
            /\ IF Pm2EvidenceAt(p)
               THEN src.Name = s_pm2 /\ src.Confidence = 9
               ELSE IF cmd \in DOMAIN supervisors
               THEN src.Name = supervisors[cmd] /\ src.Confidence = 7
               ELSE /\ src.Confidence = 7
                    /\ \E sup \in DOMAIN supervisors :
                          Contains(cmdline, sup) /\ src.Name = supervisors[sup]

\* pm2 above, a process with a registered command and another key in its
\* command line as target: the target's registry name wins
C14_Witness ==
    /\ DetectCalled
    /\ Len(ancestry) = 2
    /\ Pm2EvidenceAt(ancestry[1])
    /\ ancestry[1].Command = s_pm2
    /\ ancestry[2] = v_runsv
    /\ src.Name = <<"r", "u", "n", "i", "t">>
    /\ src.Confidence = 7

(***************************************************************************)
(* Detect called on ancestries of shells and of processes that are no      *)
(* shell; no process has a cgroup file.                                    *)
(***************************************************************************)
h_bash ==
    Process(2, 1, <<"b", "a", "s", "h">>,
            <<"-", "b", "a", "s", "h">>,
            "app", NowHours - 1, "/home/app", <<>>, "healthy")

h_zsh ==
    Process(3, 2, <<"z", "s", "h">>,
            <<"z", "s", "h", " ", "-", "l">>,
            "app", NowHours - 1, "/home/app", <<>>, "healthy")

h_sh ==
    Process(4, 3, <<"s", "h">>,
            <<"s", "h", " ", "-", "c", " ", "j", "o", "b">>,
            "app", NowHours - 1, "/home/app", <<>>, "healthy")

h_fish ==
    Process(5, 1, <<"f", "i", "s", "h">>,
            <<"f", "i", "s", "h">>,
            "app", NowHours - 1, "/home/app", <<>>, "healthy")

\* a shell's name inside a longer command, and in upper case
h_dash ==
    Process(6, 1, <<"d", "a", "s", "h">>,
            <<"d", "a", "s", "h">>,
            "app", NowHours - 1, "/home/app", <<>>, "healthy")

h_upperBash ==
    Process(7, 1, <<"B", "A", "S", "H">>,
            <<"B", "A", "S", "H">>,
            "app", NowHours - 1, "/home/app", <<>>, "healthy")

h_plain ==
    Process(300, 2, <<"m", "y", "j", "o", "b">>,
            <<"m", "y", "j", "o", "b", " ", "-", "-", "o", "n", "c", "e">>,
            "app", NowHours - 1, "/home/app", <<>>, "healthy")

\* a category above the shell
h_crond ==
    Process(200, 1, <<"c", "r", "o", "n", "d">>,
            <<"c", "r", "o", "n", "d", " ", "-", "n">>,
            "app", NowHours - 1, "/home/app", <<>>, "healthy")

ShellHost == {h_bash, h_zsh, h_sh, h_fish, h_dash, h_upperBash, h_plain, h_crond}

InitShell ==
    /\ platform = "linux"
    /\ procTable = <<>>
    /\ cgroupFiles = <<>>
    /\ launchctlOut = <<>>
    /\ target = 0
    /\ pid = 0
    /\ seen = {}
    /\ chain = <<>>
    /\ reads = <<>>
    /\ pc = "call"
    /\ ancestry \in {a \in UNION {[1..n -> ShellHost] : n \in 1..MaxChain} :
                         NoDuplicateIds(a)}
    /\ src = NotComputed
    /\ src2 = NotComputed
    /\ warnings = NotComputed
    /\ exitCode = -1

SpecShell == InitShell /\ [][NextDetect]_vars

(***************************************************************************)
(* Properties of detectShell.                                              *)
(***************************************************************************)
\* C15: without container, supervisor and cron evidence, and with a process
\* whose command is exactly bash, zsh, sh or fish, the Source is a shell of
\* confidence 0.5 named after the nearest such process.
C15_NearestShellNamesSource ==
    (/\ DetectCalled
     /\ ~HasEvidence(ContainerEvidenceAt, ancestry)
     /\ ~HasEvidence(SupervisorEvidenceAt, ancestry)
     /\ ~HasEvidence(CronEvidenceAt, ancestry)
     /\ HasEvidence(ShellEvidenceAt, ancestry)) =>
        /\ src.Type = "shell"
        /\ src.Confidence = 5
        /\ src.Name = ancestry[Nearest(ShellEvidenceAt, ancestry)].Command

\* bash above zsh above a target that is no shell: the Source is named zsh
C15_Witness ==
    /\ DetectCalled
    /\ Len(ancestry) = 3
    /\ ancestry[1].Command = s_bash
    /\ ancestry[2].Command = s_zsh
    /\ ~ShellEvidenceAt(ancestry[3])
    /\ src = Source("shell", s_zsh, 5, NoDetails)

(***************************************************************************)
(* Detect called on ancestries that reach detectInit: no process is in a   *)
(* container, a supervisor, cron or a shell.  As in every ancestry         *)
(* BuildAncestry returns, identifier 1 occurs at the first index only.     *)
(***************************************************************************)
i_systemd ==
    Process(1, 0, <<"s", "y", "s", "t", "e", "m", "d">>,
            <<"/", "s", "b", "i", "n", "/", "i", "n", "i", "t">>,
            "root", NowHours - 1, "/srv/app", <<>>, "healthy")

i_launchd ==
    Process(1, 0, <<"l", "a", "u", "n", "c", "h", "d">>,
            <<"/", "s", "b", "i", "n", "/", "l", "a", "u", "n", "c", "h", "d">>,
            "root", NowHours - 1, "/srv/app", <<>>, "healthy")

\* identifier 1 under another name
i_sysvinit ==
    Process(1, 0, <<"i", "n", "i", "t">>,
            <<"i", "n", "i", "t", " ", "[", "3", "]">>,
            "root", NowHours - 1, "/srv/app", <<>>, "healthy")

\* the init program's name under another identifier
i_userSystemd ==
    Process(40, 1, <<"s", "y", "s", "t", "e", "m", "d">>,
            <<"s", "y", "s", "t", "e", "m", "d", " ", "-", "-", "u", "s", "e", "r">>,
            "app", NowHours - 1, "/srv/app", <<>>, "healthy")

i_userLaunchd ==
    Process(41, 1, <<"l", "a", "u", "n", "c", "h", "d">>,
            <<"l", "a", "u", "n", "c", "h", "d">>,
            "app", NowHours - 1, "/srv/app", <<>>, "healthy")

\* workers that differ in what launchctl prints for them
i_labelled ==
    Process(50, 1, <<"w", "o", "r", "k", "e", "r">>,
            <<"w", "o", "r", "k", "e", "r", " ", "-", "-", "s", "e", "r", "v", "e">>,
            "app", NowHours - 1, "/srv/app", <<>>, "healthy")

i_gui ==
    Process(300, 1, <<"w", "o", "r", "k", "e", "r">>,
            <<"w", "o", "r", "k", "e", "r", " ", "-", "-", "s", "e", "r", "v", "e">>,
            "app", NowHours - 1, "/srv/app", <<>>, "healthy")

i_noSlash ==
    Process(200, 1, <<"w", "o", "r", "k", "e", "r">>,
            <<"w", "o", "r", "k", "e", "r", " ", "-", "-", "s", "e", "r", "v", "e">>,
            "app", NowHours - 1, "/srv/app", <<>>, "healthy")

i_emptyLabel ==
    Process(70, 1, <<"w", "o", "r", "k", "e", "r">>,
            <<"w", "o", "r", "k", "e", "r", " ", "-", "-", "s", "e", "r", "v", "e">>,
            "app", NowHours - 1, "/srv/app", <<>>, "healthy")

i_padded ==
    Process(60, 1, <<"w", "o", "r", "k", "e", "r">>,
            <<"w", "o", "r", "k", "e", "r", " ", "-", "-", "s", "e", "r", "v", "e">>,
            "app", NowHours - 1, "/srv/app", <<>>, "healthy")

i_unknownToLaunchctl ==
    Process(90, 1, <<"w", "o", "r", "k", "e", "r">>,
            <<"w", "o", "r", "k", "e", "r", " ", "-", "-", "s", "e", "r", "v", "e">>,
            "app", NowHours - 1, "/srv/app", <<>>, "healthy")

InitHost ==
    {i_systemd, i_launchd, i_sysvinit, i_userSystemd, i_userLaunchd, i_labelled, i_gui,
     i_noSlash, i_emptyLabel, i_padded, i_unknownToLaunchctl}

\* what launchctl blame prints; it fails for the identifiers not listed
InitHostLaunchctl ==
       50 :> <<"s", "y", "s", "t", "e", "m", "/", "a", ".", "b">>
    @@ 300 :> <<"g", "u", "i", "/", "5", "0", "1", "/", "c", ".", "d">>
    @@ 200 :> <<"s", "v", "c">>
    @@ 70 :> <<"s", "y", "s", "t", "e", "m", "/">>
    @@ 60 :> <<" ", "g", "u", "i", "/", "x", "\n">>

InitInit ==
    /\ platform \in {"linux", "darwin"}
    /\ procTable = <<>>
    /\ cgroupFiles = <<>>
    /\ launchctlOut = InitHostLaunchctl
    /\ target = 0
    /\ pid = 0
    /\ seen = {}
    /\ chain = <<>>
    /\ reads = <<>>
    /\ pc = "call"
    /\ ancestry \in {a \in UNION {[1..n -> InitHost] : n \in 1..MaxChain} :
                         /\ NoDuplicateIds(a)
                         /\ \A i \in 2..Len(a) : a[i].PID # 1}
    /\ src = NotComputed
    /\ src2 = NotComputed
    /\ warnings = NotComputed
    /\ exitCode = -1

SpecInit == InitInit /\ [][NextDetect]_vars

(***************************************************************************)
(* Properties of detectInit.                                               *)
(***************************************************************************)
\* the service label and domain of the identifiers for which launchctl
\* prints one
LabelOf ==
       50 :> <<<<"a", ".", "b">>, <<"s", "y", "s", "t", "e", "m">>>>
    @@ 300 :> <<<<"c", ".", "d">>, <<"g", "u", "i", "/", "5", "0", "1">>>>
    @@ 60 :> <<<<"x">>, <<"g", "u", "i">>>>

TopmostIsInit(anc) ==
    /\ anc[1].PID = 1
    /\ anc[1].Command = (IF platform = "linux" THEN s_systemd ELSE s_launchd)

\* C16: when no container, supervisor, cron or shell classifier matches, the
\* Source is the platform's init system exactly when the topmost ancestor has
\* identifier 1 and the init program's command: named after the target's
\* service label with confidence 0.9 when the lookup yields one, generic with
\* confidence 0.8 when it fails or yields none; otherwise it is Unknown.
C16_InitOnlyAtTopmost ==
    (/\ DetectCalled
     /\ Len(ancestry) > 0
     /\ ~HasEvidence(ContainerEvidenceAt, ancestry)
     /\ ~HasEvidence(SupervisorEvidenceAt, ancestry)
     /\ ~HasEvidence(CronEvidenceAt, ancestry)
     /\ ~HasEvidence(ShellEvidenceAt, ancestry)) =>
        LET id == Target(ancestry).PID
        IN  IF ~TopmostIsInit(ancestry) THEN src = UnknownSource
            ELSE IF platform = "linux" THEN src = Source("systemd", s_systemd, 8, NoDetails)
            ELSE IF id \in DOMAIN LabelOf
            THEN src = Source("launchd", LabelOf[id][1], 9, {<<"domain", LabelOf[id][2]>>})
            ELSE src = Source("launchd", s_launchd, 8, NoDetails)

\* launchd at the top, a target for which launchctl prints a label: the
\* Source carries the label at 0.9
C16_Witness ==
    /\ DetectCalled
    /\ platform = "darwin"
    /\ Len(ancestry) = 2
    /\ TopmostIsInit(ancestry)
    /\ ancestry[2].PID = 300
    /\ src.Name = <<"c", ".", "d">>
    /\ src.Confidence = 9

(***************************************************************************)
(* Properties that relate Warnings to Detect and to the ancestry.          *)
(***************************************************************************)
ProvenanceAdvisory == "No known supervisor detected"

\* C17: for a non-empty ancestry the list holds "No known supervisor
\* detected" exactly when the Source Detect returned for the same ancestry is
\* Unknown.
C17_ProvenanceIffUnknown ==
    (WarningsCalled /\ Len(ancestry) > 0) =>
        (Occurrences(warnings.value, ProvenanceAdvisory) > 0 <=> src.Type = "unknown")

\* a target alone with nothing that classifies it
C17_Witness ==
    /\ WarningsCalled
    /\ Len(ancestry) = 1
    /\ src = UnknownSource
    /\ Occurrences(warnings.value, ProvenanceAdvisory) = 1

\* the entry a rule contributes: its text when the rule fires
Entry(fires, text) == IF fires THEN <<text>> ELSE <<>>

\* C18: the list is the concatenation, in the order health, public interface,
\* root, working directory, longevity, provenance, of what each rule yields on
\* its own input: a rule contributes one entry or none whatever the other
\* rules do, the working-directory rule fires on "/", "/tmp" and "/var/tmp"
\* only, the longevity rule on more than 90 days only, and there are at most
\* six entries.
C18_RulesAreIndependent ==
    (WarningsCalled /\ Len(ancestry) > 0) =>
        LET t == Target(ancestry)
            addrs == t.BindAddresses
        IN  /\ warnings.value =
                  Entry(t.Health \in {"zombie", "stopped", "high-cpu", "high-mem"},
                        HealthAdvisoryOf(t.Health))
               \o Entry(\E i \in 1..Len(addrs) : addrs[i] \in {"0.0.0.0", "::"}, PublicAdvisory)
               \o Entry(t.User = "root", "Process is running as root")
               \o Entry(t.WorkingDir \in {"/", "/tmp", "/var/tmp"},
                        "Process running from suspicious directory: " \o t.WorkingDir)
               \o Entry(NowHours - t.StartedAt > 90 * 24,
                        "Process has been running for over 90 days")
               \o Entry(src.Type = "unknown", ProvenanceAdvisory)
            /\ Len(warnings.value) <= 6

\* every rule fires at once
C18_Witness ==
    /\ WarningsCalled
    /\ warnings.value =
          <<"Process is using high CPU (>2h total)",
            "Process is listening on a public interface",
            "Process is running as root",
            "Process running from suspicious directory: /var/tmp",
            "Process has been running for over 90 days",
            "No known supervisor detected">>

\* the entries of the five rules that read the target
TargetEntries(list) == SelectSeq(list, LAMBDA text : text # ProvenanceAdvisory)

\* the ancestries that end in the target of this one
SameTarget(anc) == {<<Target(anc)>>} \cup {<<a, Target(anc)>> : a \in WarnAncestors}

\* C20: the entries of the health, public-interface, root, working-directory
\* and longevity rules are those Warnings gives for any other ancestry that
\* ends in the same target, whatever the attributes of the ancestors.
C20_OnlyTheTargetCounts ==
    (WarningsCalled /\ Len(ancestry) > 0) =>
        \A other \in SameTarget(ancestry) : \A result \in Warnings(other) :
            TargetEntries(result.value) = TargetEntries(warnings.value)

\* a target that trips no rule, below an ancestor that would trip all five
C20_Witness ==
    /\ WarningsCalled
    /\ Len(ancestry) = 2
    /\ ancestry[1].Health = "zombie"
    /\ ancestry[1].User = "root"
    /\ ancestry[1].WorkingDir = "/tmp"
    /\ ancestry[1].BindAddresses = <<"0.0.0.0">>
    /\ NowHours - ancestry[1].StartedAt > 90 * 24
    /\ Target(ancestry).Health = "healthy"
    /\ Target(ancestry).User = "app"
    /\ TargetEntries(warnings.value) = <<>>

(***************************************************************************)
(* Where BuildAncestry stops.                                              *)
(***************************************************************************)
\* the process read last has identifier 1 or parent identifier 0
ReadInit(c) == c # <<>> /\ (c[1].PID = 1 \/ c[1].PPID = 0)

\* C19: once BuildAncestry has read a process with identifier 1 or parent
\* identifier 0 it reads no further process and leaves the chain as it is, so
\* that in the chain and in the ancestry returned only the first element can
\* have identifier 1 or parent identifier 0.
C19_StopsAtInit ==
    [][/\ ReadInit(chain) => (reads' = reads /\ chain' = chain)
       /\ \A i \in 2..Len(chain') : chain'[i].PID # 1 /\ chain'[i].PPID # 0
       /\ \A i \in 2..Len(ancestry') : ancestry'[i].PID # 1 /\ ancestry'[i].PPID # 0]_vars

\* the climb ended at process 1 although its parent is a readable process
\* that was never read
C19_Witness ==
    /\ HasReturned
    /\ Len(ancestry) >= 2
    /\ ancestry[1].PID = 1
    /\ ancestry[1].PPID \in DOMAIN procTable
    /\ \A i \in 1..Len(reads) : reads[i] # ancestry[1].PPID

(***************************************************************************)
(* How the elements of an ancestry are linked.                             *)
(***************************************************************************)
\* each element is the recorded parent of the next one
Linked(c) == \A i \in 1..(Len(c) - 1) : c[i].PID = c[i + 1].PPID

\* C21: in the chain being built and in the ancestry returned, every element's
\* identifier is the parent identifier recorded in the element after it, also
\* when the parent links form a cycle or a read fails part-way.
C21_ParentToChild == Linked(chain) /\ Linked(ancestry)

\* a cycle: the first element's parent is a process lower in the ancestry
C21_Witness ==
    /\ HasReturned
    /\ Len(ancestry) >= 2
    /\ ancestry[1].PPID \in ChainIds(ancestry)
    /\ ancestry[1].PID = ancestry[2].PPID

====
